---- MODULE Spec2Model ----
(***************************************************************************)
(* Model of the two Streamlit dashboards of MCP--Data-Exploration          *)
(* (student_dashboard.py, simple_dashboard.py).                            *)
(*                                                                         *)
(* A DataFrame is a record [columns, rows, id]: columns is the ordered     *)
(* list of column names, rows the ordered list of row records, id the      *)
(* identity of the Python object (a new id for every frame pandas          *)
(* allocates, the same id when a frame is changed in place).               *)
(* Hours (Sleep_Hours_per_Night, Study_Hours_per_Week) and their bin edges *)
(* are held in tenths of an hour, so 5.0 is 50 and 3.9 is 39.              *)
(* A float that pandas computes as a quotient is held as the exact         *)
(* fraction [nan, num, den]; nan = TRUE is the float NaN.                  *)
(***************************************************************************)
EXTENDS Integers, Sequences, FiniteSets, TLC

\* ------------------------------------------------------------------ bounds

\* Most rows a CSV file of the model holds.
MaxRows == 2

\* Most runs of the script in one session (the first run and the reruns that
\* the user's widget changes cause).
MaxRuns == 3

\* How far beyond the outer bin edges the sampled bin inputs reach.
BinMargin == 3

\* How far the row counts of the large files lie around the smallest cohort
\* size and around twice that size.
CohortSlack == 1

\* ------------------------------------------------------- program constants

\* st.slider("Stress Level Range", min_value=1, max_value=10, value=(1, 10))
SliderMin == 1
SliderMax == 10

\* pd.crosstab(..., normalize='index') * 100
Percent == 100

\* st.slider("Number of students to analyze", 50, 500, 250, 50)
StudentsMin == 50
StudentsDefault == 250

\* The missing value of pandas (NaN), as a category label or a group key.
NaN == "NaN"

\* The sentinel every selectbox puts before the column's values.
All == "All"

SleepBins == <<39, 50, 60, 70, 80, 91>>
SleepLabels == <<"4-5", "5-6", "6-7", "7-8", "8-9">>

StudyBins == <<49, 100, 150, 200, 250, 301>>
StudyLabels == <<"5-10", "10-15", "15-20", "20-25", "25-30">>

StressBins == <<0, 3, 6, 10>>
StressLabels == <<"Low (1-3)", "Medium (4-6)", "High (7-10)">>

\* correct_order, category_order, sleep_order of student_dashboard.py
correct_order == <<"A", "B", "C", "D", "F">>
category_order == StudyLabels
sleep_order == SleepLabels

\* ----------------------------------------------------------------- helpers

Range(s) == {s[i] : i \in 1..Len(s)}

RECURSIVE SumSeq(_)
SumSeq(s) == IF s = <<>> THEN 0 ELSE Head(s) + SumSeq(Tail(s))

\* Python's order on the strings of the model (code-point order), as used by
\* sorted(), by groupby's sort=True and by crosstab's axes.
Lex ==
    <<"A", "B", "C", "CS", "D", "F", "Female", "High", "High School", "Low", "Male",
      "Math", "Medium", "No", "PhD", "Yes">>

\* income_order of student_dashboard.py
income_order == <<"Low", "Medium", "High">>

\* sorted(values): the strings of S in Python's order.
Sorted(S) == SelectSeq(Lex, LAMBDA v : v \in S)

\* Series.unique() of a column, as a set.
Unique(frame, col) == {frame.rows[i][col] : i \in 1..Len(frame.rows)}

\* ['All'] + sorted(df[col].unique().tolist()), as the set of choices.
Options(frame, col) == {All} \cup Unique(frame, col)

\* ---------------------------------------------------------------- the data

\* The columns read from Students_Grading_Dataset.csv that the model keeps.
CsvColumns ==
    <<"Department", "Gender", "Grade", "Family_Income_Level",
      "Internet_Access_at_Home", "Extracurricular_Activities", "Stress_Level",
      "Sleep_Hours_per_Night", "Study_Hours_per_Week", "Total_Score",
      "Attendance">>

\* The columns load_data adds, in the order it adds them.
DerivedColumns ==
    <<"Sleep_Category", "Study_Hours_Category", "Stress_Category", "Pass_Status">>

CsvRow(dep, gen, gr, inc, net, ext, stress, sleep, study, total, att) ==
    [Department |-> dep, Gender |-> gen, Grade |-> gr,
     Family_Income_Level |-> inc, Internet_Access_at_Home |-> net,
     Extracurricular_Activities |-> ext, Stress_Level |-> stress,
     Sleep_Hours_per_Night |-> sleep, Study_Hours_per_Week |-> study,
     Total_Score |-> total, Attendance |-> att]

\* The rows a CSV file of the model is made of: a sleep value on an interior
\* edge (5.0), one below the first edge (3.5), a study value above the last
\* edge (30.5), and values well inside the bins. The first two rows have the
\* same 'Attendance (%)'.
RowPool ==
    { CsvRow("CS", "Female", "A", "High", "Yes", "No", 2, 50, 120, 90, 95),
      CsvRow("CS", "Male", "F", "Low", "Yes", "No", 5, 35, 100, 40, 95),
      CsvRow("Math", "Female", "B", "Low", "Yes", "No", 8, 72, 305, 70, 80) }

RECURSIVE SeqsUpTo(_, _)
SeqsUpTo(S, n) ==
    IF n = 0 THEN {<<>>}
    ELSE LET shorter == SeqsUpTo(S, n - 1)
         IN shorter \cup {Append(s, x) : s \in {t \in shorter : Len(t) = n - 1}, x \in S}

\* A file with one row for each grade, the rows not in the order of the grades,
\* and with the three income levels.
GradesFile ==
    << CsvRow("CS", "Female", "C", "Medium", "Yes", "No", 4, 65, 160, 70, 85),
       CsvRow("CS", "Male", "A", "High", "Yes", "No", 3, 75, 220, 90, 95),
       CsvRow("Math", "Female", "F", "Low", "Yes", "No", 9, 45, 60, 50, 70),
       CsvRow("Math", "Male", "D", "Medium", "Yes", "No", 7, 55, 110, 60, 75),
       CsvRow("CS", "Female", "B", "Low", "Yes", "No", 5, 70, 180, 80, 90) >>

\* The contents a CSV file can have.
CsvFiles == SeqsUpTo(RowPool, MaxRows) \cup {GradesFile}

\* The column of the source that may be absent, and the levels the script
\* orders it by (edu_order).
OptionalColumn == "Parent_Education_Level"
edu_order == <<"None", "High School", "Bachelor's", "Master's", "PhD">>

\* A header line without one of its columns.
Without(head, col) == SelectSeq(head, LAMBDA c : c # col)

\* The header lines a source file can have: the full one, one without a column
\* load_data reads ('Grade'), one without a column the sidebar reads
\* ('Department'), one without a column only the key metrics and the charts
\* read ('Total_Score'), and the full one with the optional column.
SourceHeaders ==
    { CsvColumns,
      Without(CsvColumns, "Grade"),
      Without(CsvColumns, "Department"),
      Without(CsvColumns, "Total_Score"),
      CsvColumns \o <<OptionalColumn>> }

\* The rows of RowPool with a parent education level; read_csv gives NaN for
\* an empty cell.
ParentPool ==
    { [k \in DOMAIN r \cup {OptionalColumn} |->
          IF k = OptionalColumn THEN IF r.Grade = "A" THEN "PhD"
                                     ELSE IF r.Grade = "B" THEN "High School"
                                     ELSE NaN
          ELSE r[k]] : r \in RowPool }

\* The contents a file with the header line head can have: each row has the
\* header's columns.
SourceFiles(head) ==
    {[i \in 1..Len(file) |-> [k \in Range(head) |-> file[i][k]]] :
        file \in SeqsUpTo(ParentPool, MaxRows)}

\* How the Total_Score values of a large file are laid out: pairwise distinct
\* and not sorted, five values with many rows each, or one value for all rows.
CohortPatterns == {"distinct", "tied", "equal"}

\* Row i of a large file.
CohortRow(i, pattern) ==
    CsvRow(IF i % 2 = 0 THEN "CS" ELSE "Math",
           IF i % 3 = 0 THEN "Male" ELSE "Female",
           correct_order[1 + (i % 5)],
           income_order[1 + (i % 3)],
           "Yes", "No",
           1 + (i % 10),
           40 + ((i * 7) % 50),
           50 + ((i * 11) % 250),
           CASE pattern = "distinct" -> (i * 37) % 103
             [] pattern = "tied" -> 50 + 10 * ((i * 7) % 5)
             [] OTHER -> 75,
           60 + ((i * 13) % 40))

\* The row counts of the large files: around the smallest cohort size the
\* slider offers and around twice that size.
CohortLens ==
    UNION {((k * StudentsMin) - CohortSlack)..((k * StudentsMin) + CohortSlack) :
              k \in 1..2}

\* The large files: more rows than the slider's smallest cohort, or about as many.
CohortFiles ==
    {[i \in 1..n |-> CohortRow(i, p)] : n \in CohortLens, p \in CohortPatterns}

\* ------------------------------------------------------------------ pd.cut

\* side='right' in place of side='left': the intervals closed on the left.
SearchSortedRight(bins, x) == Cardinality({i \in 1..Len(bins) : bins[i] <= x})

\* numpy.searchsorted(bins, x, side='left'): how many edges lie below x.
SearchSortedLeft(bins, x) == Cardinality({i \in 1..Len(bins) : bins[i] < x})

\* pd.cut(x, bins=bins, labels=labels) with the defaults right=True,
\* include_lowest=False: the label of (bins[i], bins[i+1]], NaN outside.
Cut(x, bins, labels) ==
    LET ids == SearchSortedLeft(bins, x)
    IN IF ids = 0 \/ ids = Len(bins) THEN NaN ELSE labels[ids]

\* The lambda with 'D' failed as well.
PassStatusFailingD(grade) == IF grade \in {"D", "F"} THEN "Failed" ELSE "Passed"

\* lambda x: 'Failed' if x == 'F' else 'Passed'
PassStatus(grade) == IF grade = "F" THEN "Failed" ELSE "Passed"

\* One row of the frame load_data returns: the row read_csv gave, with the four
\* derived columns.
LoadedRow(r) ==
    [k \in DOMAIN r \cup Range(DerivedColumns) |->
        CASE k = "Sleep_Category" -> Cut(r.Sleep_Hours_per_Night, SleepBins, SleepLabels)
          [] k = "Study_Hours_Category" -> Cut(r.Study_Hours_per_Week, StudyBins, StudyLabels)
          [] k = "Stress_Category" -> Cut(r.Stress_Level, StressBins, StressLabels)
          [] k = "Pass_Status" -> PassStatus(r.Grade)
          [] OTHER -> r[k]]

\* load_data of student_dashboard.py: read_csv on the file with the header line
\* head, then the derived columns.
load_data(head, file, id) ==
    [columns |-> head \o DerivedColumns,
     rows |-> [i \in 1..Len(file) |-> LoadedRow(file[i])],
     id |-> id]

\* ------------------------------------------------------------- the filters

\* The mask with an off-by-one slice: the first matching row is lost.
EqMaskFromSecond(frame, col, selected, id) ==
    LET matching == SelectSeq(frame.rows, LAMBDA r : r[col] = selected)
    IN [columns |-> frame.columns,
        rows |-> IF matching = <<>> THEN <<>> ELSE Tail(matching),
        id |-> id]

\* frame[frame[col] == selected]: a new frame of the matching rows.
EqMask(frame, col, selected, id) ==
    [columns |-> frame.columns,
     rows |-> SelectSeq(frame.rows, LAMBDA r : r[col] = selected),
     id |-> id]

\* if selected != 'All': filtered_df = filtered_df[filtered_df[col] == selected]
FilterStep(frame, col, selected, id) ==
    IF selected # All THEN EqMask(frame, col, selected, id) ELSE frame

\* The range with > and < in place of >= and <=.
RangeMaskExclusive(frame, lo, hi, id) ==
    [columns |-> frame.columns,
     rows |-> SelectSeq(frame.rows,
                        LAMBDA r : r.Stress_Level > lo /\ r.Stress_Level < hi),
     id |-> id]

\* frame[(frame['Stress_Level (1-10)'] >= lo) & (frame['Stress_Level (1-10)'] <= hi)]
RangeMask(frame, lo, hi, id) ==
    [columns |-> frame.columns,
     rows |-> SelectSeq(frame.rows,
                        LAMBDA r : r.Stress_Level >= lo /\ r.Stress_Level <= hi),
     id |-> id]

\* The widget values of one run of student_dashboard.py.
Selection(dep, gen, gr, inc, net, ext, lo, hi, n) ==
    [selected_department |-> dep, selected_gender |-> gen, selected_grade |-> gr,
     selected_income |-> inc, selected_internet |-> net, selected_extra |-> ext,
     stress_min |-> lo, stress_max |-> hi, n_students |-> n]

\* "Apply filters to dataframe" of student_dashboard.py: the copy, the six
\* equality steps in their order, then the stress range.
ApplyFilters(frame, sel, id) ==
    LET f0 == [frame EXCEPT !.id = id]
        f1 == FilterStep(f0, "Department", sel.selected_department, id)
        f2 == FilterStep(f1, "Gender", sel.selected_gender, id)
        f3 == FilterStep(f2, "Grade", sel.selected_grade, id)
        f4 == FilterStep(f3, "Family_Income_Level", sel.selected_income, id)
        f5 == FilterStep(f4, "Internet_Access_at_Home", sel.selected_internet, id)
        f6 == FilterStep(f5, "Extracurricular_Activities", sel.selected_extra, id)
    IN RangeMask(f6, sel.stress_min, sel.stress_max, id)

\* --------------------------------------------------------------- the means

\* Series.mean() of a list of integers: NaN for no values, else sum / count.
Mean(values) ==
    IF values = <<>> THEN [nan |-> TRUE, num |-> 0, den |-> 1]
    ELSE [nan |-> FALSE, num |-> SumSeq(values), den |-> Len(values)]

\* frame[col] as a list.
Column(frame, col) == [i \in 1..Len(frame.rows) |-> frame.rows[i][col]]

\* The rows of frame whose col is key.
RowsOf(frame, col, key) == SelectSeq(frame.rows, LAMBDA r : r[col] = key)

\* One line of a groupby(...)[metric].mean().reset_index() result.
GroupLine(frame, col, key, metric) ==
    LET members == RowsOf(frame, col, key)
    IN [key |-> key,
        mean |-> Mean([i \in 1..Len(members) |-> members[i][metric]])]

\* frame.groupby(col)[metric].mean().reset_index() on a column of strings:
\* one line per value that occurs, in sorted order.
GroupByMean(frame, col, metric) ==
    LET keys == Sorted(Unique(frame, col))
    IN [k \in 1..Len(keys) |-> GroupLine(frame, col, keys[k], metric)]

\* The same on a categorical column made by pd.cut. Rows whose category is NaN
\* are left out (dropna=True). With observed=False every category gets a line,
\* with observed=True only the categories that occur; the call passes no
\* observed argument, so the pandas release decides.
GroupByCategoryMean(frame, col, categories, metric, observed) ==
    LET keys == IF observed
                THEN SelectSeq(categories, LAMBDA c : c \in Unique(frame, col))
                ELSE categories
    IN [k \in 1..Len(keys) |-> GroupLine(frame, col, keys[k], metric)]

\* pd.Categorical(values, categories=order): a value that is no category
\* becomes NaN.
AsCategory(key, order) == IF key \in Range(order) THEN key ELSE NaN

\* result[col] = pd.Categorical(result[col], categories=order, ordered=True)
Recategorize(result, order) ==
    [i \in 1..Len(result) |->
        [result[i] EXCEPT !.key = AsCategory(result[i].key, order)]]

\* result.sort_values(col) on the categorical column: the lines in the order of
\* the categories (lines of one category keep their order), NaN keys last.
RECURSIVE SortValues(_, _)
SortValues(result, order) ==
    IF order = <<>> THEN result
    ELSE SelectSeq(result, LAMBDA g : g.key = Head(order))
         \o SortValues(SelectSeq(result, LAMBDA g : g.key # Head(order)), Tail(order))

\* The result made categorical but left unsorted.
SortByCategoryUnsorted(result, order) == Recategorize(result, order)

\* The two statements together, as the script applies them to a grouped result.
SortByCategory(result, order) == SortValues(Recategorize(result, order), order)

\* ---------------------------------------------------------------- crosstab

\* How many rows of frame have rowcol = r and colcol = c.
Count(frame, rowcol, r, colcol, c) ==
    Cardinality({i \in 1..Len(frame.rows) :
                    frame.rows[i][rowcol] = r /\ frame.rows[i][colcol] = c})

\* The cell without the "* 100".
NormalizeToOne(count, total) ==
    IF total = 0 THEN [nan |-> FALSE, num |-> 0, den |-> 1]
    ELSE [nan |-> FALSE, num |-> count, den |-> total]

\* table.div(table.sum(axis=1), axis=0).fillna(0) * 100: one cell of a row
\* whose counts add up to total.
Normalize(count, total) ==
    IF total = 0 THEN [nan |-> FALSE, num |-> 0, den |-> 1]
    ELSE [nan |-> FALSE, num |-> Percent * count, den |-> total]

\* The table with its columns sorted from the largest value to the smallest.
CrosstabDescending(frame, rowcol, colcol) ==
    LET index == Sorted(Unique(frame, rowcol))
        ascending == Sorted(Unique(frame, colcol))
        columns == [c \in 1..Len(ascending) |-> ascending[Len(ascending) + 1 - c]]
        total(r) == SumSeq([c \in 1..Len(columns) |->
                               Count(frame, rowcol, r, colcol, columns[c])])
    IN [index |-> index,
        columns |-> columns,
        cell |-> [r \in Range(index) |-> [c \in Range(columns) |->
                     Normalize(Count(frame, rowcol, r, colcol, c), total(r))]]]

\* pd.crosstab(frame[rowcol], frame[colcol], normalize='index') * 100: the
\* values that occur on each axis, sorted, and the row percentages.
Crosstab(frame, rowcol, colcol) ==
    LET index == Sorted(Unique(frame, rowcol))
        columns == Sorted(Unique(frame, colcol))
        total(r) == SumSeq([c \in 1..Len(columns) |->
                               Count(frame, rowcol, r, colcol, columns[c])])
    IN [index |-> index,
        columns |-> columns,
        cell |-> [r \in Range(index) |-> [c \in Range(columns) |->
                     Normalize(Count(frame, rowcol, r, colcol, c), total(r))]]]

\* if not table.empty and set(correct_order).issubset(set(table.columns)):
\*     table = table[correct_order]
ReorderColumns(table, order) ==
    IF table.index # <<>> /\ table.columns # <<>>
       /\ Range(order) \subseteq Range(table.columns)
    THEN [index |-> table.index,
          columns |-> order,
          cell |-> [r \in Range(table.index) |-> [c \in Range(order) |->
                       table.cell[r][c]]]]
    ELSE table

\* ------------------------------------------------------------- correlation

\* The columns of score_columns that the model keeps.
score_columns ==
    <<"Attendance", "Total_Score", "Study_Hours_per_Week", "Stress_Level",
      "Sleep_Hours_per_Night">>

\* f[1] + ... + f[n]
RECURSIVE SumTo(_, _)
SumTo(f, n) == IF n = 0 THEN 0 ELSE f[n] + SumTo(f, n - 1)

\* The float NaN as an entry of the correlation matrix.
NoCoefficient == [nan |-> TRUE, cov |-> 0, varx |-> 0, vary |-> 0]

\* One entry of DataFrame.corr() (Pearson, min_periods=1): the coefficient is
\* cov / sqrt(varx * vary), held as the three integers n*Sxy - Sx*Sy,
\* n*Sxx - Sx*Sx and n*Syy - Sy*Sy; NaN when the divisor is 0, which is so for
\* fewer than two rows and for a column whose values are all equal.
Pearson(frame, a, b) ==
    LET n == Len(frame.rows)
        sx == SumTo([i \in 1..n |-> frame.rows[i][a]], n)
        sy == SumTo([i \in 1..n |-> frame.rows[i][b]], n)
        sxx == SumTo([i \in 1..n |-> frame.rows[i][a] * frame.rows[i][a]], n)
        syy == SumTo([i \in 1..n |-> frame.rows[i][b] * frame.rows[i][b]], n)
        sxy == SumTo([i \in 1..n |-> frame.rows[i][a] * frame.rows[i][b]], n)
        varx == n * sxx - sx * sx
        vary == n * syy - sy * sy
    IN IF varx = 0 \/ vary = 0 THEN NoCoefficient
       ELSE [nan |-> FALSE, cov |-> n * sxy - sx * sy, varx |-> varx, vary |-> vary]

\* frame[columns].corr(): the entries before .round(2), which rounds each entry
\* on its own and leaves NaN as NaN and 1.0 as 1.0.
Corr(frame, columns) ==
    [a \in Range(columns) |-> [b \in Range(columns) |-> Pearson(frame, a, b)]]

\* ----------------------------------------------------------------- cohorts

\* keep='last' in place of keep='first': of equal values the later row is kept.
NLargestKeepLast(frame, n, col) ==
    LET N == Len(frame.rows)
        before(j, i) == \/ frame.rows[j][col] > frame.rows[i][col]
                        \/ frame.rows[j][col] = frame.rows[i][col] /\ j > i
    IN {i \in 1..N : Cardinality({j \in 1..N : before(j, i)}) < n}

\* A selection that gives nothing when n is more than the frame has rows.
NLargestWithinSize(frame, n, col) ==
    LET N == Len(frame.rows)
        before(j, i) == \/ frame.rows[j][col] > frame.rows[i][col]
                        \/ frame.rows[j][col] = frame.rows[i][col] /\ j < i
    IN IF n > N THEN {}
       ELSE {i \in 1..N : Cardinality({j \in 1..N : before(j, i)}) < n}

\* frame.nlargest(n, col), keep='first': the positions in frame of the n rows
\* with the largest values of col, of equal values the earlier row first; all
\* rows when n is at least the number of rows. The order of the rows inside the
\* cohort plays no part in what the script computes from it.
NLargest(frame, n, col) ==
    LET N == Len(frame.rows)
        before(j, i) == \/ frame.rows[j][col] > frame.rows[i][col]
                        \/ frame.rows[j][col] = frame.rows[i][col] /\ j < i
    IN {i \in 1..N : Cardinality({j \in 1..N : before(j, i)}) < n}

\* nlargest called where nsmallest was meant.
NSmallestAsLargest(frame, n, col) == NLargest(frame, n, col)

\* frame.nsmallest(n, col), keep='first'.
NSmallest(frame, n, col) ==
    LET N == Len(frame.rows)
        before(j, i) == \/ frame.rows[j][col] < frame.rows[i][col]
                        \/ frame.rows[j][col] = frame.rows[i][col] /\ j < i
    IN {i \in 1..N : Cardinality({j \in 1..N : before(j, i)}) < n}

\* The columns of top_stats and bottom_stats.
StatColumns ==
    <<"Study_Hours_per_Week", "Stress_Level", "Sleep_Hours_per_Night", "Attendance">>

\* The mean taken over the whole frame instead of the cohort.
CohortMeanOfFrame(frame, index, col) == Mean(Column(frame, col))

\* students[col].mean() for the cohort at the positions index of frame.
CohortMean(frame, index, col) ==
    LET N == Len(frame.rows)
    IN IF index = {} THEN Mean(<<>>)
       ELSE [nan |-> FALSE,
             num |-> SumTo([i \in 1..N |-> IF i \in index THEN frame.rows[i][col]
                                           ELSE 0], N),
             den |-> Cardinality(index)]

\* students[[...four columns...]].mean()
CohortStats(frame, index) ==
    [c \in Range(StatColumns) |-> CohortMean(frame, index, c)]

\* students[col].value_counts(normalize=True) * 100: the share of each value
\* that occurs in the cohort.
ValueCounts(frame, index, col) ==
    [v \in {frame.rows[i][col] : i \in index} |->
        [nan |-> FALSE,
         num |-> Percent * Cardinality({i \in index : frame.rows[i][col] = v}),
         den |-> Cardinality(index)]]

\* The keys of top_metrics and bottom_metrics, in the order of the dict.
MetricKeys ==
    <<"Avg. Study Hours", "Avg. Stress Level", "Avg. Sleep Hours", "Avg. Attendance">>

\* How many units of the model make one unit of the column: hours are held in
\* tenths.
UnitsOf(col) ==
    IF col \in {"Study_Hours_per_Week", "Sleep_Hours_per_Night"} THEN 10 ELSE 1

\* f"{x:.2f}" followed by suffix: the texts the format can give, each as the
\* number of hundredths it shows; "nan" for NaN. A mean that lies exactly
\* between two hundredths is shown as either, as the binary float falls.
Format2(mean, units, suffix) ==
    IF mean.nan THEN {[nan |-> TRUE, hundredths |-> 0, suffix |-> suffix]}
    ELSE LET p == 2 * 100 * mean.num + units * mean.den
             q == 2 * units * mean.den
             k == p \div q
         IN {[nan |-> FALSE, hundredths |-> h, suffix |-> suffix] :
                h \in IF p % q = 0 THEN {k - 1, k} ELSE {k}}

\* The dicts top_metrics / bottom_metrics can be for the means stats.
Metrics(stats) ==
    {[k \in Range(MetricKeys) |-> t[CHOOSE i \in 1..Len(MetricKeys) : MetricKeys[i] = k]] :
        t \in Format2(stats["Study_Hours_per_Week"], UnitsOf("Study_Hours_per_Week"), "")
              \X Format2(stats["Stress_Level"], UnitsOf("Stress_Level"), "")
              \X Format2(stats["Sleep_Hours_per_Night"], UnitsOf("Sleep_Hours_per_Night"), "")
              \X Format2(stats["Attendance"], UnitsOf("Attendance"), "%")}

\* float(text.replace('%', '')): the number the text shows, NaN for "nan".
ParseFloat(text) == [nan |-> text.nan, hundredths |-> text.hundredths]

\* {key: float(top_metrics[key]...) - float(bottom_metrics[key]...) for key in top_metrics}
DiffMetrics(top, bottom) ==
    [k \in DOMAIN top |->
        LET t == ParseFloat(top[k])
            b == ParseFloat(bottom[k])
        IN IF t.nan \/ b.nan THEN [nan |-> TRUE, hundredths |-> 0]
           ELSE [nan |-> FALSE, hundredths |-> t.hundredths - b.hundredths]]

\* ------------------------------------------------------------------ export

\* The columns that hold a category of pd.cut, which can be missing.
CategoryColumns == {"Sleep_Category", "Study_Hours_Category", "Stress_Category"}

\* One cell of to_csv: a missing category is written as the empty text, any
\* other value as the text that reads back as the same value.
CellText(row, col) ==
    IF col \in CategoryColumns /\ row[col] = NaN THEN "" ELSE row[col]

\* frame.to_csv(index=False): the header line with every column of the frame,
\* then one record per row.
to_csv(frame) ==
    [header |-> frame.columns,
     records |-> [i \in 1..Len(frame.rows) |->
                     [c \in 1..Len(frame.columns) |->
                         CellText(frame.rows[i], frame.columns[c])]]]

\* ------------------------------------------------------- load and its errors

\* The columns load_data reads, the columns the sidebar reads, and the columns
\* the key metrics read, each in the order of the script.
LoadReads ==
    <<"Sleep_Hours_per_Night", "Study_Hours_per_Week", "Stress_Level", "Grade">>
SidebarReads ==
    <<"Department", "Gender", "Grade", "Family_Income_Level",
      "Internet_Access_at_Home", "Extracurricular_Activities">>
MetricReads == <<"Total_Score", "Attendance", "Study_Hours_per_Week">>

\* No exception.
NoError == [kind |-> "", detail |-> "", at |-> "", shown |-> ""]

\* df[col] for the first column of reads that head does not have: the KeyError
\* raised, or NoError when head has them all. shown is how the user sees it.
KeyErrorIn(reads, head, at, shown) ==
    LET missing == SelectSeq(reads, LAMBDA c : c \notin Range(head))
    IN IF missing = <<>> THEN NoError
       ELSE [kind |-> "KeyError", detail |-> Head(missing), at |-> at, shown |-> shown]

\* What "try: df = load_data() ... except Exception as e: st.error(...)" shows:
\* read_csv raises FileNotFoundError, a derived column raises KeyError.
LoadError(exists, head) ==
    IF ~exists
    THEN [kind |-> "FileNotFoundError", detail |-> "Students_Grading_Dataset.csv",
          at |-> "load", shown |-> "st.error"]
    ELSE KeyErrorIn(LoadReads, head, "load", "st.error")

\* The exception a run on a loaded frame ends with: nothing after the load is
\* inside a try, so Streamlit shows the traceback.
ScriptError(head) ==
    LET sidebar == KeyErrorIn(SidebarReads, head, "sidebar", "traceback")
    IN IF sidebar # NoError THEN sidebar
       ELSE KeyErrorIn(MetricReads, head, "metrics", "traceback")

\* A name not yet bound to a frame.
NoFrame == [columns |-> <<>>, rows |-> <<>>, id |-> 0]

\* A call of the function without the decorator: the body's value every time.
cache_data_uncached(memo, value) == value

\* @st.cache_data() on load_data, which has no arguments: the first value the
\* body returned is kept (no ttl, no max_entries) and every call gets a copy
\* of it. memo is the entry, NoFrame while there is none.
cache_data(memo, value) == IF memo = NoFrame THEN value ELSE memo

\* ------------------------------------------------------------ passing rate

\* (frame['Pass_Status'] == 'Passed').mean() * 100
PassingRate(frame) ==
    Mean([i \in 1..Len(frame.rows) |->
             IF frame.rows[i].Pass_Status = "Passed" THEN Percent ELSE 0])

\* The text of a metric not yet shown.
NoText == [nan |-> TRUE, tenths |-> 0, suffix |-> ""]

\* f"{x:.1f}%": the texts the format can give, each as the number of tenths it
\* shows; "nan%" for NaN. A value that lies exactly between two tenths is
\* shown as either.
Format1(mean, suffix) ==
    IF mean.nan THEN {[nan |-> TRUE, tenths |-> 0, suffix |-> suffix]}
    ELSE LET p == 2 * 10 * mean.num + mean.den
             q == 2 * mean.den
             k == p \div q
         IN {[nan |-> FALSE, tenths |-> t, suffix |-> suffix] :
                t \in IF p % q = 0 THEN {k - 1, k} ELSE {k}}

\* -------------------------------------------------------- parent education

\* A name not yet bound to a table.
NoTable == [index |-> <<>>, columns |-> <<>>, cell |-> <<>>]

\* The right column of tab 4 before the script has reached it.
NoParentEdu == [shown |-> "", perf |-> <<>>, grade |-> NoTable]

\* frame.dropna(subset=[col])
DropNa(frame, col) ==
    [columns |-> frame.columns,
     rows |-> SelectSeq(frame.rows, LAMBDA r : r[col] # NaN),
     id |-> frame.id]

\* The guard without its isna().all() half: the charts whenever the column is
\* there.
ParentEducationOfAnyValue(frame) ==
    IF OptionalColumn \in Range(frame.columns)
    THEN LET parent_edu_df == DropNa(frame, OptionalColumn)
         IN [shown |-> "charts",
             perf |-> GroupByMean(parent_edu_df, OptionalColumn, "Total_Score"),
             grade |-> Crosstab(parent_edu_df, OptionalColumn, "Grade")]
    ELSE [shown |-> "Parent Education Level data is not available.",
          perf |-> <<>>, grade |-> NoTable]

\* The right column of tab 4: the two charts when the column is there and has
\* a value in some row of the frame, an st.info text otherwise.
ParentEducation(frame) ==
    IF /\ OptionalColumn \in Range(frame.columns)
       /\ \E i \in 1..Len(frame.rows) : frame.rows[i][OptionalColumn] # NaN
    THEN LET parent_edu_df == DropNa(frame, OptionalColumn)
         IN IF parent_edu_df.rows # <<>>
            THEN LET parent_edu_perf ==
                         GroupByMean(parent_edu_df, OptionalColumn, "Total_Score")
                     available_edu ==
                         SelectSeq(edu_order,
                                   LAMBDA e : \E i \in 1..Len(parent_edu_perf) :
                                                 parent_edu_perf[i].key = e)
                 IN [shown |-> "charts",
                     perf |-> IF available_edu # <<>>
                              THEN SortByCategory(parent_edu_perf, available_edu)
                              ELSE parent_edu_perf,
                     grade |-> ReorderColumns(
                                   Crosstab(parent_edu_df, OptionalColumn, "Grade"),
                                   correct_order)]
            ELSE [shown |-> "No data available for Parent Education Level analysis.",
                  perf |-> <<>>, grade |-> NoTable]
    ELSE [shown |-> "Parent Education Level data is not available.",
          perf |-> <<>>, grade |-> NoTable]

\* ------------------------------------------------- setup_claude_windows.py

\* JSON values: a string, null, or an object with its members in the order
\* of the text. An array is held as an object whose keys are the positions.
Str(text) == [type |-> "str", str |-> text, items |-> <<>>]
Null == [type |-> "null", str |-> "", items |-> <<>>]
Obj(items) == [type |-> "obj", str |-> "", items |-> items]
Member(key, value) == [key |-> key, value |-> value]
Arr(a, b, c) ==
    [type |-> "arr", str |-> "",
     items |-> <<Member("0", Str(a)), Member("1", Str(b)), Member("2", Str(c))>>]

\* key in d
Has(d, key) == \E i \in 1..Len(d.items) : d.items[i].key = key

\* d[key]
Get(d, key) == d.items[CHOOSE i \in 1..Len(d.items) : d.items[i].key = key].value

\* d[key] = value: a key the dict has keeps its place, a new one goes last.
Set(d, key, value) ==
    IF Has(d, key)
    THEN [d EXCEPT !.items = [i \in 1..Len(d.items) |->
                                 IF d.items[i].key = key THEN Member(key, value)
                                 ELSE d.items[i]]]
    ELSE [d EXCEPT !.items = Append(d.items, Member(key, value))]

\* The name of the server's entry.
ServerName == "mcp-server-ds"

\* The entry update_config writes for a wheel path.
ServerEntry(path) ==
    Obj(<<Member("command", Str("uvx")),
          Member("args", Arr("--from", path, ServerName))>>)

\* No claude_desktop_config.json.
NoFile == [exists |-> FALSE, valid |-> FALSE, indent |-> 0, doc |-> Null]

\* A file whose text is the JSON of doc, written with this indent.
JsonFile(indent, doc) == [exists |-> TRUE, valid |-> TRUE, indent |-> indent, doc |-> doc]

\* A file whose text is no JSON.
BrokenFile == [exists |-> TRUE, valid |-> FALSE, indent |-> 0, doc |-> Null]

\* Another server's entry, and an entry of this server left by an earlier
\* installation.
OtherEntry == Obj(<<Member("command", Str("npx")), Member("args", Arr("-y", "srv", "run"))>>)
OldEntry == ServerEntry("C:\\old\\dist\\old.whl")

\* The documents the config file can hold before the script's first run.
ConfigDocs ==
    { Obj(<<>>),
      Obj(<<Member("mcpServers", Obj(<<>>))>>),
      Obj(<<Member("theme", Str("dark")),
            Member("mcpServers", Obj(<<Member("other", OtherEntry)>>))>>),
      Obj(<<Member("mcpServers", Obj(<<Member(ServerName, OldEntry),
                                       Member("other", OtherEntry)>>)),
            Member("theme", Str("dark"))>>),
      Obj(<<Member("mcpServers", Null)>>),
      Null }

\* The contents of the config file before the script's first run: none, a
\* text that is no JSON, or one of the documents written with indent 2 or 4.
ConfigFiles ==
    {NoFile, BrokenFile} \cup {JsonFile(n, d) : n \in {2, 4}, d \in ConfigDocs}

\* main()'s config and wheel_path before they are bound.
NoConfig == Null
NoWheel == ""

\* config = {"mcpServers": {}} if not config_path.exists()
\*          else json.loads(config_path.read_text())
setup_claude_config(file) ==
    IF ~file.exists THEN [raised |-> FALSE, config |-> Obj(<<Member("mcpServers", Obj(<<>>))>>)]
    ELSE IF ~file.valid THEN [raised |-> TRUE, config |-> NoConfig]
    ELSE [raised |-> FALSE, config |-> file.doc]

\* The wheels "uv build" can name: one with backslashes, one with forward
\* slashes.
BackslashWheel == "dist\\mcp_server_ds-0.1.0-py3-none-any.whl"
SlashWheel == "dist/mcp_server_ds-0.1.1-py3-none-any.whl"

\* The outputs of "uv build" (stdout + stderr), as their words.
BuildOutputs ==
    LET words == {BackslashWheel, SlashWheel, "Successfully"}
    IN {<<>>} \cup {<<w>> : w \in words} \cup (words \X words)

\* str(Path(whl_file).absolute()) in the project directory.
Absolute(whl_file) ==
    IF whl_file = BackslashWheel
    THEN "C:\\mcp-server-data-exploration\\dist\\mcp_server_ds-0.1.0-py3-none-any.whl"
    ELSE "C:\\mcp-server-data-exploration\\dist\\mcp_server_ds-0.1.1-py3-none-any.whl"

\* build_package without its two checks: a failed build or an output without a
\* wheel goes on with no wheel path.
build_package_unchecked(raised, returncode, output) ==
    LET backslash == SelectSeq(output, LAMBDA w : w = BackslashWheel)
        match == IF backslash # <<>> THEN backslash
                 ELSE SelectSeq(output, LAMBDA w : w = SlashWheel)
    IN [exit |-> FALSE,
        path |-> IF match = <<>> THEN NoWheel ELSE Absolute(match[Len(match)])]

\* build_package: sys.exit when Popen raises, when the build's return code is
\* not 0 or when the output names no wheel; else the absolute path of the last
\* wheel named with backslashes, or with forward slashes when none is.
build_package(raised, returncode, output) ==
    LET backslash == SelectSeq(output, LAMBDA w : w = BackslashWheel)
        match == IF backslash # <<>> THEN backslash
                 ELSE SelectSeq(output, LAMBDA w : w = SlashWheel)
    IN IF raised \/ returncode # 0 \/ match = <<>>
       THEN [exit |-> TRUE, path |-> NoWheel]
       ELSE [exit |-> FALSE, path |-> Absolute(match[Len(match)])]

\* update_config that builds the config anew from the entry.
update_config_afresh(doc, path) ==
    [raised |-> FALSE,
     config |-> Obj(<<Member("mcpServers", Obj(<<Member(ServerName, ServerEntry(path))>>))>>)]

\* update_config up to its write: setdefault and the assignment of the entry.
\* A config that is no dict, or whose mcpServers is none, raises.
update_config(doc, path) ==
    IF doc.type # "obj" THEN [raised |-> TRUE, config |-> doc]
    ELSE LET withServers == IF Has(doc, "mcpServers") THEN doc
                            ELSE Set(doc, "mcpServers", Obj(<<>>))
             servers == Get(withServers, "mcpServers")
         IN IF servers.type # "obj" THEN [raised |-> TRUE, config |-> withServers]
            ELSE [raised |-> FALSE,
                  config |-> Set(withServers, "mcpServers",
                                 Set(servers, ServerName, ServerEntry(path)))]

\* config_path.write_text(json.dumps(config, indent=2))
json_dumps(doc) == JsonFile(2, doc)

\* ------------------------------------------------------------------- state

VARIABLES
    csv,                \* the rows of Students_Grading_Dataset.csv
    header,             \* its header line
    found,              \* whether the file is where the script looks for it
    observed,           \* the default of groupby's observed in the installed pandas
    cache,              \* the value st.cache_data holds for load_data
    parsed,             \* how often load_data's body has read the file
    error,              \* the exception the last run of student_dashboard.py ended with
    run,                \* "init" before the first run of student_dashboard.py, then "loaded"
    runs,               \* how often the script has run in this session
    df,                 \* the frame load_data returned
    widgets,            \* the sidebar's current values
    filtered_df,        \* student_dashboard.py's filtered_df
    avg_total,          \* filtered_df['Total_Score'].mean()
    passing_rate,       \* (filtered_df['Pass_Status'] == 'Passed').mean() * 100
    passing_text,       \* the text of the "Passing Rate" metric
    dept_grade,         \* the department by grade table
    grade_performance,  \* the mean Total_Score per grade
    study_perf,         \* the mean Total_Score per Study_Hours_Category
    sleep_perf,         \* the mean Total_Score per Sleep_Category
    gender_grade,       \* the gender by grade table
    income_perf,        \* the mean Total_Score per Family_Income_Level
    parent_edu,         \* what the parent education column of tab 4 shows
    correlation_matrix, \* the correlations of the score columns
    top_students,       \* the positions in filtered_df of the top cohort's rows
    top_stats,          \* the means of the top cohort
    top_grades,         \* the grade shares of the top cohort
    top_metrics,        \* the formatted means of the top cohort
    bottom_students,    \* the same five for the bottom cohort
    bottom_stats,
    bottom_grades,
    bottom_metrics,
    diff_metrics,       \* the differences between top_metrics and bottom_metrics
    csv_export,         \* filtered_df.to_csv(index=False), the script's csv
    binned,             \* the last pd.cut call on its own: [bins, labels, x, label]
    simple_pc,          \* where the run of simple_dashboard.py stands
    simple_df,          \* simple_dashboard.py's df
    simple_widgets,     \* its two selectboxes
    simple_filtered_df, \* its filtered_df
    simple_sleep_perf,  \* its sleep_perf
    simple_handed,      \* the ids of the frames this run has passed to an operation
    setup_pc,           \* the call main() of setup_claude_windows.py is about to make
    config_file,        \* the content of claude_desktop_config.json
    config_before,      \* its content when the current run of the script started
    config,             \* main()'s config
    wheel_path          \* main()'s wheel_path

vars ==
    <<csv, header, found, observed, cache, parsed, error, run, runs, df, widgets,
      filtered_df, avg_total, passing_rate, passing_text, dept_grade,
      grade_performance, study_perf, sleep_perf, gender_grade, income_perf,
      parent_edu, correlation_matrix, top_students, top_stats, top_grades,
      top_metrics, bottom_students, bottom_stats, bottom_grades, bottom_metrics,
      diff_metrics, csv_export, binned, simple_pc, simple_df, simple_widgets,
      simple_filtered_df, simple_sleep_perf, simple_handed, setup_pc, config_file,
      config_before, config, wheel_path>>

\* The source file and the installed pandas.
sourceVars == <<csv, header, found, observed>>

\* What a run of student_dashboard.py computes after its filters.
resultVars ==
    <<avg_total, passing_rate, passing_text, dept_grade, grade_performance,
      study_perf, sleep_perf, gender_grade, income_perf, parent_edu,
      correlation_matrix, top_students, top_stats, top_grades, top_metrics,
      bottom_students, bottom_stats, bottom_grades, bottom_metrics, diff_metrics,
      csv_export>>

\* The variables of student_dashboard.py's process and session.
studentVars ==
    <<cache, parsed, error, run, df, widgets, filtered_df, resultVars>>

\* The variables of simple_dashboard.py's session.
simpleVars ==
    <<simple_pc, simple_df, simple_widgets, simple_filtered_df, simple_sleep_perf,
      simple_handed>>

\* The variables of a run of setup_claude_windows.py.
setupVars == <<setup_pc, config_file, config_before, config, wheel_path>>

NoCut == [bins |-> <<>>, labels |-> <<>>, x |-> 0, label |-> NaN]

\* The ids of the frame load_data returns and of a run's filtered frame.
LoadedId == 1
FilteredId == 2

\* Every selectbox starts on its first option, the slider on value=(1, 10).
DefaultWidgets ==
    Selection(All, All, All, All, All, All, SliderMin, SliderMax, StudentsDefault)

\* The positions the model moves the slider's two handles to. The slider
\* returns its lower handle first, so stress_min <= stress_max.
SliderChoices ==
    {<<SliderMin, SliderMax>>, <<SliderMin, 3>>, <<4, 7>>, <<5, SliderMax>>,
     <<SliderMin, SliderMin>>}

\* The positions the model moves the cohort slider to: its lower end and its
\* default.
StudentsChoices == {StudentsMin, StudentsDefault}

\* to_csv not yet called.
NoExport == [header |-> <<>>, records |-> <<>>]

\* student_dashboard.py before its first run.
StudentIdle ==
    /\ run = "init"
    /\ cache = NoFrame
    /\ parsed = 0
    /\ error = NoError
    /\ df = NoFrame
    /\ widgets = DefaultWidgets
    /\ filtered_df = NoFrame
    /\ avg_total = Mean(<<>>)
    /\ passing_rate = Mean(<<>>)
    /\ passing_text = NoText
    /\ dept_grade = NoTable
    /\ grade_performance = <<>>
    /\ study_perf = <<>>
    /\ sleep_perf = <<>>
    /\ gender_grade = NoTable
    /\ income_perf = <<>>
    /\ parent_edu = NoParentEdu
    /\ correlation_matrix = <<>>
    /\ top_students = {}
    /\ top_stats = <<>>
    /\ top_grades = <<>>
    /\ top_metrics = <<>>
    /\ bottom_students = {}
    /\ bottom_stats = <<>>
    /\ bottom_grades = <<>>
    /\ bottom_metrics = <<>>
    /\ diff_metrics = <<>>
    /\ csv_export = NoExport

\* setup_claude_windows.py not started, no config file.
SetupIdle ==
    /\ setup_pc = "idle"
    /\ config_file = NoFile
    /\ config_before = NoFile
    /\ config = NoConfig
    /\ wheel_path = NoWheel

\* The selectboxes of simple_dashboard.py on their first option.
SimpleDefaultWidgets == [selected_department |-> All, selected_gender |-> All]

\* simple_dashboard.py before its run starts.
SimpleIdle ==
    /\ simple_pc = "start"
    /\ simple_df = NoFrame
    /\ simple_widgets = SimpleDefaultWidgets
    /\ simple_filtered_df = NoFrame
    /\ simple_sleep_perf = <<>>
    /\ simple_handed = {}

\* ------------------------------------------------- student_dashboard.py runs

\* The rest of a run whose frame has every column the script reads: the key
\* metrics, the tables and grouped results, the correlation matrix, the two
\* cohorts with their difference view, and the export.
Analyses(sel) ==
    /\ avg_total' = Mean(Column(filtered_df', "Total_Score"))
    /\ passing_rate' = PassingRate(filtered_df')
    /\ passing_text' \in Format1(passing_rate', "%")
    /\ dept_grade' = ReorderColumns(Crosstab(filtered_df', "Department", "Grade"),
                                    correct_order)
    /\ grade_performance' =
           SortByCategory(GroupByMean(filtered_df', "Grade", "Total_Score"),
                          correct_order)
    /\ study_perf' =
           SortByCategory(GroupByCategoryMean(filtered_df', "Study_Hours_Category",
                                              StudyLabels, "Total_Score", observed),
                          category_order)
    /\ sleep_perf' =
           SortByCategory(GroupByCategoryMean(filtered_df', "Sleep_Category",
                                              SleepLabels, "Total_Score", observed),
                          sleep_order)
    /\ correlation_matrix' = Corr(filtered_df', score_columns)
    /\ gender_grade' = ReorderColumns(Crosstab(filtered_df', "Gender", "Grade"),
                                      correct_order)
    /\ income_perf' =
           SortByCategory(GroupByMean(filtered_df', "Family_Income_Level", "Total_Score"),
                          income_order)
    /\ parent_edu' = ParentEducation(filtered_df')
    /\ top_students' = NLargest(filtered_df', sel.n_students, "Total_Score")
    /\ top_stats' = CohortStats(filtered_df', top_students')
    /\ top_grades' = ValueCounts(filtered_df', top_students', "Grade")
    /\ top_metrics' \in Metrics(top_stats')
    /\ bottom_students' = NSmallest(filtered_df', sel.n_students, "Total_Score")
    /\ bottom_stats' = CohortStats(filtered_df', bottom_students')
    /\ bottom_grades' = ValueCounts(filtered_df', bottom_students', "Grade")
    /\ bottom_metrics' \in Metrics(bottom_stats')
    /\ diff_metrics' = DiffMetrics(top_metrics', bottom_metrics')
    /\ csv_export' = to_csv(filtered_df')

\* One run of the script with the widget values sel. The load is inside a try
\* whose except shows the error and calls st.stop(); an exception raised later
\* ends the run where it is raised, with what the run had bound until then.
RunScript(sel) ==
    /\ runs' = runs + 1
    /\ UNCHANGED <<sourceVars, setupVars, binned, simpleVars>>
    /\ IF cache = NoFrame /\ LoadError(found, header) # NoError
       THEN /\ error' = LoadError(found, header)
            /\ run' = "stopped"
            /\ parsed' = IF found THEN parsed + 1 ELSE parsed
            /\ UNCHANGED <<cache, df, widgets, filtered_df, resultVars>>
       ELSE /\ df' = cache_data(cache, load_data(header, csv, LoadedId))
            /\ cache' = IF cache = NoFrame THEN df' ELSE cache
            /\ parsed' = IF cache = NoFrame THEN parsed + 1 ELSE parsed
            /\ error' = ScriptError(header)
            /\ IF error'.at = "sidebar"
               THEN /\ run' = "raised"
                    /\ UNCHANGED <<widgets, filtered_df, resultVars>>
               ELSE /\ widgets' = sel
                    /\ filtered_df' = ApplyFilters(df', sel, FilteredId)
                    /\ IF error'.at = "metrics"
                       THEN /\ run' = "raised"
                            /\ UNCHANGED resultVars
                       ELSE /\ run' = "loaded"
                            /\ Analyses(sel)

\* The sidebar's widgets are on the page: the last run got past the sidebar.
SidebarShown == run = "loaded" \/ (run = "raised" /\ error.at = "metrics")

\* The first run of a session: every widget at its default.
FirstRun ==
    /\ run = "init"
    /\ RunScript(DefaultWidgets)

\* The user picks another option of a selectbox; Streamlit runs the script again.
SelectDepartment ==
    /\ SidebarShown
    /\ runs < MaxRuns
    /\ \E v \in Options(df, "Department") \ {widgets.selected_department} :
          RunScript([widgets EXCEPT !.selected_department = v])

SelectGender ==
    /\ SidebarShown
    /\ runs < MaxRuns
    /\ \E v \in Options(df, "Gender") \ {widgets.selected_gender} :
          RunScript([widgets EXCEPT !.selected_gender = v])

SelectGrade ==
    /\ SidebarShown
    /\ runs < MaxRuns
    /\ \E v \in Options(df, "Grade") \ {widgets.selected_grade} :
          RunScript([widgets EXCEPT !.selected_grade = v])

SelectIncome ==
    /\ SidebarShown
    /\ runs < MaxRuns
    /\ \E v \in Options(df, "Family_Income_Level") \ {widgets.selected_income} :
          RunScript([widgets EXCEPT !.selected_income = v])

SelectInternet ==
    /\ SidebarShown
    /\ runs < MaxRuns
    /\ \E v \in Options(df, "Internet_Access_at_Home") \ {widgets.selected_internet} :
          RunScript([widgets EXCEPT !.selected_internet = v])

SelectExtra ==
    /\ SidebarShown
    /\ runs < MaxRuns
    /\ \E v \in Options(df, "Extracurricular_Activities") \ {widgets.selected_extra} :
          RunScript([widgets EXCEPT !.selected_extra = v])

\* The user moves the stress slider.
SlideStress ==
    /\ SidebarShown
    /\ runs < MaxRuns
    /\ \E p \in SliderChoices \ {<<widgets.stress_min, widgets.stress_max>>} :
          RunScript([widgets EXCEPT !.stress_min = p[1], !.stress_max = p[2]])

\* The user moves the slider "Number of students to analyze".
SlideStudents ==
    /\ SidebarShown
    /\ runs < MaxRuns
    /\ \E n \in StudentsChoices \ {widgets.n_students} :
          RunScript([widgets EXCEPT !.n_students = n])

Init ==
    /\ csv \in CsvFiles
    /\ header = CsvColumns
    /\ found = TRUE
    /\ observed \in BOOLEAN
    /\ SetupIdle
    /\ runs = 0
    /\ StudentIdle
    /\ binned = NoCut
    /\ SimpleIdle

Next ==
    \/ FirstRun
    \/ SelectDepartment
    \/ SelectGender
    \/ SelectGrade
    \/ SelectIncome
    \/ SelectInternet
    \/ SelectExtra
    \/ SlideStress
    \/ SlideStudents

Spec == Init /\ [][Next]_vars

\* --------------------------------------------------- simple_dashboard.py runs

\* The ids of the frames the two masks of simple_dashboard.py allocate.
DepartmentMaskId == 3
GenderMaskId == 4

\* load_data of simple_dashboard.py: read_csv and nothing else.
simple_load_data(head, file, id) == [columns |-> head, rows |-> file, id |-> id]

\* "Apply filters" of simple_dashboard.py: the copy and the two equality steps.
SimpleApplyFilters(frame, sel) ==
    LET f0 == [frame EXCEPT !.id = FilteredId]
        f1 == FilterStep(f0, "Department", sel.selected_department, DepartmentMaskId)
    IN FilterStep(f1, "Gender", sel.selected_gender, GenderMaskId)

\* filtered_df['Sleep_Category'] = pd.cut(...): the column is set on the frame
\* object itself.
WithSleepCategory(frame) ==
    [columns |-> frame.columns \o <<"Sleep_Category">>,
     rows |-> [i \in 1..Len(frame.rows) |->
                 [k \in DOMAIN frame.rows[i] \cup {"Sleep_Category"} |->
                     IF k = "Sleep_Category"
                     THEN Cut(frame.rows[i].Sleep_Hours_per_Night, SleepBins, SleepLabels)
                     ELSE frame.rows[i][k]]],
     id |-> frame.id]

\* df = load_data(): the frame is read on the first run and cached afterwards.
SimpleLoad ==
    /\ simple_pc = "start"
    /\ simple_df' = simple_load_data(header, csv, LoadedId)
    /\ simple_filtered_df' = NoFrame
    /\ simple_handed' = {}
    /\ simple_sleep_perf' = <<>>
    /\ simple_pc' = "filters"
    /\ runs' = runs + 1
    /\ UNCHANGED <<sourceVars, setupVars, binned, studentVars, simple_widgets>>

\* The sidebar and "Apply filters".
SimpleFilter ==
    /\ simple_pc = "filters"
    /\ simple_filtered_df' = SimpleApplyFilters(simple_df, simple_widgets)
    /\ simple_pc' = "tab1"
    /\ UNCHANGED <<sourceVars, setupVars, runs, binned, studentVars, simple_df,
                   simple_widgets, simple_sleep_perf, simple_handed>>

\* Tabs 1 and 2 and the scatter plot of tab 3: value_counts, crosstab, groupby,
\* histplot and scatterplot all read filtered_df.
SimpleCharts ==
    /\ simple_pc = "tab1"
    /\ simple_handed' = simple_handed \cup {simple_filtered_df.id}
    /\ simple_pc' = "tab3"
    /\ UNCHANGED <<sourceVars, setupVars, runs, binned, studentVars, simple_df,
                   simple_widgets, simple_filtered_df, simple_sleep_perf>>

\* "Create categories for sleep hours".
SimpleSleepCategory ==
    /\ simple_pc = "tab3"
    /\ simple_filtered_df' = WithSleepCategory(simple_filtered_df)
    /\ simple_pc' = "sleep_perf"
    /\ UNCHANGED <<sourceVars, setupVars, runs, binned, studentVars, simple_df,
                   simple_widgets, simple_sleep_perf, simple_handed>>

\* sleep_perf, then stress_perf and the raw data table, which read filtered_df.
SimpleSleepPerf ==
    /\ simple_pc = "sleep_perf"
    /\ simple_sleep_perf' =
           GroupByCategoryMean(simple_filtered_df, "Sleep_Category", SleepLabels,
                               "Total_Score", observed)
    /\ simple_handed' = simple_handed \cup {simple_filtered_df.id}
    /\ simple_pc' = "done"
    /\ UNCHANGED <<sourceVars, setupVars, runs, binned, studentVars, simple_df,
                   simple_widgets, simple_filtered_df>>

\* The user picks another option of a selectbox; Streamlit runs the script again.
SimpleSelectDepartment ==
    /\ simple_pc = "done"
    /\ runs < MaxRuns
    /\ \E v \in Options(simple_df, "Department") \ {simple_widgets.selected_department} :
          simple_widgets' = [simple_widgets EXCEPT !.selected_department = v]
    /\ simple_pc' = "start"
    /\ UNCHANGED <<sourceVars, setupVars, runs, binned, studentVars, simple_df,
                   simple_filtered_df, simple_sleep_perf, simple_handed>>

SimpleSelectGender ==
    /\ simple_pc = "done"
    /\ runs < MaxRuns
    /\ \E v \in Options(simple_df, "Gender") \ {simple_widgets.selected_gender} :
          simple_widgets' = [simple_widgets EXCEPT !.selected_gender = v]
    /\ simple_pc' = "start"
    /\ UNCHANGED <<sourceVars, setupVars, runs, binned, studentVars, simple_df,
                   simple_filtered_df, simple_sleep_perf, simple_handed>>

InitSimple ==
    /\ csv \in CsvFiles
    /\ header = CsvColumns
    /\ found = TRUE
    /\ observed \in BOOLEAN
    /\ SetupIdle
    /\ runs = 0
    /\ StudentIdle
    /\ binned = NoCut
    /\ SimpleIdle

NextSimple ==
    \/ SimpleLoad
    \/ SimpleFilter
    \/ SimpleCharts
    \/ SimpleSleepCategory
    \/ SimpleSleepPerf
    \/ SimpleSelectDepartment
    \/ SimpleSelectGender

SpecSimple == InitSimple /\ [][NextSimple]_vars

\* ------------------------------------------------ cohorts of the large files

\* A session on a large file in which the user moves the cohort slider only.
InitCohort ==
    /\ csv \in CohortFiles
    /\ header = CsvColumns
    /\ found = TRUE
    /\ observed \in BOOLEAN
    /\ SetupIdle
    /\ runs = 0
    /\ StudentIdle
    /\ binned = NoCut
    /\ SimpleIdle

NextCohort ==
    \/ FirstRun
    \/ SlideStudents

SpecCohort == InitCohort /\ [][NextCohort]_vars

\* ------------------------------------------------------- pd.cut on its own

\* The three bin specifications load_data applies (simple_dashboard.py applies
\* the first one to its filtered frame).
BinSpecs ==
    { [bins |-> SleepBins, labels |-> SleepLabels],
      [bins |-> StudyBins, labels |-> StudyLabels],
      [bins |-> StressBins, labels |-> StressLabels] }

\* The source values tried on a specification: every value from BinMargin
\* below its first edge to BinMargin above its last.
BinInputs(b) == (b.bins[1] - BinMargin)..(b.bins[Len(b.bins)] + BinMargin)

\* pd.cut applied to one value of the source column.
CutValue ==
    /\ \E b \in BinSpecs : \E x \in BinInputs(b) :
          binned' = [bins |-> b.bins, labels |-> b.labels, x |-> x,
                     label |-> Cut(x, b.bins, b.labels)]
    /\ UNCHANGED <<sourceVars, setupVars, runs, studentVars, simpleVars>>

InitBin ==
    /\ csv = <<>>
    /\ header = CsvColumns
    /\ found = TRUE
    /\ observed = FALSE
    /\ SetupIdle
    /\ runs = 0
    /\ StudentIdle
    /\ binned = NoCut
    /\ SimpleIdle

NextBin == CutValue

SpecBin == InitBin /\ [][NextBin]_vars

\* ---------------------------------------- setup_claude_windows.py's main()

\* The script is started: main() prints "Starting setup...".
StartSetup ==
    /\ setup_pc \in {"idle", "done", "exited"}
    /\ runs < MaxRuns
    /\ runs' = runs + 1
    /\ setup_pc' = "check_uv"
    /\ config_before' = config_file
    /\ config' = NoConfig
    /\ wheel_path' = NoWheel
    /\ UNCHANGED <<sourceVars, binned, studentVars, simpleVars, config_file>>

\* check_uv(): "where uv" finds uv or not; if not, the user is asked.
CheckUv ==
    /\ setup_pc = "check_uv"
    /\ \E installed \in BOOLEAN, answer \in BOOLEAN :
          setup_pc' = IF ~installed /\ ~answer THEN "exited" ELSE "setup_venv"
    /\ UNCHANGED <<sourceVars, runs, binned, studentVars, simpleVars, config_file,
                   config_before, config, wheel_path>>

\* setup_venv(): .venv exists or not; if not, the user is asked.
SetupVenv ==
    /\ setup_pc = "setup_venv"
    /\ \E exists \in BOOLEAN, answer \in BOOLEAN :
          setup_pc' = IF ~exists /\ ~answer THEN "exited" ELSE "sync_dependencies"
    /\ UNCHANGED <<sourceVars, runs, binned, studentVars, simpleVars, config_file,
                   config_before, config, wheel_path>>

\* sync_dependencies(): run_command returns None when "uv sync" fails, and the
\* script goes on.
SyncDependencies ==
    /\ setup_pc = "sync_dependencies"
    /\ setup_pc' = "check_claude_desktop"
    /\ UNCHANGED <<sourceVars, runs, binned, studentVars, simpleVars, config_file,
                   config_before, config, wheel_path>>

\* check_claude_desktop(): Claude.exe is at one of the paths or not; if not,
\* the user is asked.
CheckClaudeDesktop ==
    /\ setup_pc = "check_claude_desktop"
    /\ \E claude_exists \in BOOLEAN, answer \in BOOLEAN :
          setup_pc' = IF ~claude_exists /\ ~answer THEN "exited"
                      ELSE "setup_claude_config"
    /\ UNCHANGED <<sourceVars, runs, binned, studentVars, simpleVars, config_file,
                   config_before, config, wheel_path>>

\* config_path, config = setup_claude_config(): the directory is made, the
\* file is read and not written; json.loads raises on a text that is no JSON.
SetupClaudeConfig ==
    /\ setup_pc = "setup_claude_config"
    /\ LET read == setup_claude_config(config_file)
       IN /\ config' = read.config
          /\ setup_pc' = IF read.raised THEN "exited" ELSE "build_package"
    /\ UNCHANGED <<sourceVars, runs, binned, studentVars, simpleVars, config_file,
                   config_before, wheel_path>>

\* wheel_path = build_package()
BuildPackage ==
    /\ setup_pc = "build_package"
    /\ \E raised \in BOOLEAN, returncode \in {0, 1}, output \in BuildOutputs :
          LET built == build_package(raised, returncode, output)
          IN /\ wheel_path' = built.path
             /\ setup_pc' = IF built.exit THEN "exited" ELSE "update_config"
    /\ UNCHANGED <<sourceVars, runs, binned, studentVars, simpleVars, config_file,
                   config_before, config>>

\* update_config(config_path, config, wheel_path)
UpdateConfig ==
    /\ setup_pc = "update_config"
    /\ LET updated == update_config(config, wheel_path)
       IN /\ config' = updated.config
          /\ config_file' = IF updated.raised THEN config_file
                            ELSE json_dumps(updated.config)
          /\ setup_pc' = IF updated.raised THEN "exited" ELSE "restart_claude"
    /\ UNCHANGED <<sourceVars, runs, binned, studentVars, simpleVars, config_before,
                   wheel_path>>

\* restart_claude(), then "Setup completed successfully!".
RestartClaude ==
    /\ setup_pc = "restart_claude"
    /\ setup_pc' = "done"
    /\ UNCHANGED <<sourceVars, runs, binned, studentVars, simpleVars, config_file,
                   config_before, config, wheel_path>>

InitSetup ==
    /\ csv = <<>>
    /\ header = CsvColumns
    /\ found = TRUE
    /\ observed = FALSE
    /\ runs = 0
    /\ StudentIdle
    /\ binned = NoCut
    /\ SimpleIdle
    /\ setup_pc = "idle"
    /\ config_file \in ConfigFiles
    /\ config_before = config_file
    /\ config = NoConfig
    /\ wheel_path = NoWheel

NextSetup ==
    \/ StartSetup
    \/ CheckUv
    \/ SetupVenv
    \/ SyncDependencies
    \/ CheckClaudeDesktop
    \/ SetupClaudeConfig
    \/ BuildPackage
    \/ UpdateConfig
    \/ RestartClaude

SpecSetup == InitSetup /\ [][NextSetup]_vars

\* ----------------------------------------------- sources that fail to load

\* Students_Grading_Dataset.csv is rewritten without its last row while the
\* Streamlit process runs.
ReplaceFile ==
    /\ found
    /\ run = "loaded"
    /\ csv # <<>>
    /\ csv' = SubSeq(csv, 1, Len(csv) - 1)
    /\ UNCHANGED <<header, found, observed, setupVars, runs, binned, studentVars,
                   simpleVars>>

\* A session on a source that may be missing, or lack a column, or have the
\* optional column.
InitLoad ==
    /\ found \in BOOLEAN
    /\ header \in SourceHeaders
    /\ csv \in SourceFiles(header)
    /\ observed \in BOOLEAN
    /\ SetupIdle
    /\ runs = 0
    /\ StudentIdle
    /\ binned = NoCut
    /\ SimpleIdle

NextLoad ==
    \/ FirstRun
    \/ SelectDepartment
    \/ SelectGender
    \/ ReplaceFile

SpecLoad == InitLoad /\ [][NextLoad]_vars

\* ------------------------------------------------------------------ claims

\* The intervals (bins[i], bins[i+1]] of a specification that hold x.
Holding(bins, x) == {i \in 1..(Len(bins) - 1) : bins[i] < x /\ x <= bins[i + 1]}

\* C1: under each of the three bin specifications, a source value above the
\* first edge and up to the last edge lies in exactly one interval
\* (bins[i], bins[i+1]] and pd.cut gives it that interval's label, never NaN; a
\* value on an interior edge gets the label of the interval it closes.
C1_ExactlyOneLabel ==
    (/\ binned.bins # <<>>
     /\ binned.bins[1] < binned.x
     /\ binned.x <= binned.bins[Len(binned.bins)])
    => /\ Cardinality(Holding(binned.bins, binned.x)) = 1
       /\ binned.label # NaN
       /\ \A i \in Holding(binned.bins, binned.x) : binned.label = binned.labels[i]
       /\ Cardinality({i \in 1..Len(binned.labels) :
                          binned.labels[i] = binned.label}) = 1

\* C1 witness: sleep 5.0, an interior edge, has been binned as '4-5'.
C1_Witness ==
    /\ binned.bins = SleepBins
    /\ binned.x = 50
    /\ binned.label = "4-5"

\* True when the run of the script has finished at least once.
Loaded == run = "loaded"

\* The lines of the three grouped results with the column each groups by.
GroupedBy ==
    { [result |-> study_perf, col |-> "Study_Hours_Category"],
      [result |-> sleep_perf, col |-> "Sleep_Category"],
      [result |-> grade_performance, col |-> "Grade"] }

\* C2 (as claimed): every row of the filtered frame, also one whose source value
\* lies outside all intervals, is accounted for in the per-bin results: the
\* result grouped by a binned column has a line for the row's category.
C2_UnbinnedRowAccounted ==
    Loaded =>
        \A i \in 1..Len(filtered_df.rows) :
            /\ \E k \in 1..Len(study_perf) :
                  study_perf[k].key = filtered_df.rows[i].Study_Hours_Category
            /\ \E k \in 1..Len(sleep_perf) :
                  sleep_perf[k].key = filtered_df.rows[i].Sleep_Category

\* The predicates of the current widget values, as one conjunction on a row.
Satisfies(r, sel) ==
    /\ sel.selected_department = All \/ r.Department = sel.selected_department
    /\ sel.selected_gender = All \/ r.Gender = sel.selected_gender
    /\ sel.selected_grade = All \/ r.Grade = sel.selected_grade
    /\ sel.selected_income = All \/ r.Family_Income_Level = sel.selected_income
    /\ sel.selected_internet = All \/ r.Internet_Access_at_Home = sel.selected_internet
    /\ sel.selected_extra = All \/ r.Extracurricular_Activities = sel.selected_extra
    /\ sel.stress_min <= r.Stress_Level
    /\ r.Stress_Level <= sel.stress_max

AllSelected(sel) ==
    /\ sel.selected_department = All
    /\ sel.selected_gender = All
    /\ sel.selected_grade = All
    /\ sel.selected_income = All
    /\ sel.selected_internet = All
    /\ sel.selected_extra = All

\* C3: the filtered frame holds, in the order of df, exactly the rows of df that
\* satisfy every predicate (AND over the six selections and the stress range); a
\* selection of 'All' excludes no row, so with every selection 'All' and a
\* stress range that covers every row the filtered frame has exactly df's rows.
C3_FilterIsConjunction ==
    Loaded =>
        /\ filtered_df.rows = SelectSeq(df.rows, LAMBDA r : Satisfies(r, widgets))
        /\ filtered_df.columns = df.columns
        /\ (/\ AllSelected(widgets)
            /\ \A i \in 1..Len(df.rows) :
                  /\ widgets.stress_min <= df.rows[i].Stress_Level
                  /\ df.rows[i].Stress_Level <= widgets.stress_max)
           => filtered_df.rows = df.rows

\* C3 witness: two selections other than 'All' are combined, a row that
\* satisfies the first but not the second is dropped, and a row is kept.
C3_Witness ==
    /\ Loaded
    /\ widgets.selected_department # All
    /\ widgets.selected_grade # All
    /\ filtered_df.rows # <<>>
    /\ \E i \in 1..Len(df.rows) :
          /\ df.rows[i].Department = widgets.selected_department
          /\ df.rows[i].Grade # widgets.selected_grade

\* C4: applying the current filters to the filtered frame gives the filtered
\* frame again: the same rows in the same order.
C4_FilterIdempotent ==
    Loaded => ApplyFilters(filtered_df, widgets, FilteredId) = filtered_df

\* C4 witness: an equality selection and a stress range narrower than the
\* default have dropped some rows and kept others.
C4_Witness ==
    /\ Loaded
    /\ ~AllSelected(widgets)
    /\ <<widgets.stress_min, widgets.stress_max>> # <<SliderMin, SliderMax>>
    /\ filtered_df.rows # <<>>
    /\ Len(filtered_df.rows) < Len(df.rows)

\* C5 (as claimed): once load has returned, the loaded frame keeps its rows,
\* columns and cell values through every later step, and a frame that has been
\* handed to an operation never gains a column: a derived column appears only
\* on a frame that is new.
C5_NoFrameMutated ==
    [][/\ simple_pc # "start" => simple_df' = simple_df
       /\ (/\ simple_filtered_df.id \in simple_handed
           /\ simple_filtered_df'.id = simple_filtered_df.id)
          => simple_filtered_df'.columns = simple_filtered_df.columns]_vars

\* C6 (as claimed): when the filters leave no row, every downstream result is
\* empty and none is null: the key metric is not NaN and the grouped results and
\* the crosstab have no line.
C6_EmptyResultsNotNull ==
    (Loaded /\ filtered_df.rows = <<>>) =>
        /\ ~avg_total.nan
        /\ grade_performance = <<>>
        /\ study_perf = <<>>
        /\ sleep_perf = <<>>
        /\ dept_grade.index = <<>>

\* C8 (as claimed): every line of a grouped result stands for at least one row
\* of the filtered frame and carries a mean, not NaN.
C8_NoEmptyGroup ==
    Loaded =>
        \A g \in GroupedBy : \A k \in 1..Len(g.result) :
            /\ ~g.result[k].mean.nan
            /\ RowsOf(filtered_df, g.col, g.result[k].key) # <<>>

\* The rows and the sum behind a line's mean.
LineCount(line) == IF line.mean.nan THEN 0 ELSE line.mean.den
LineSum(line) == IF line.mean.nan THEN 0 ELSE line.mean.num

\* C9 (as claimed): for every grouped result the group row counts add up to the
\* filtered frame's row count and the group sums to its sum of Total_Score, so
\* the count-weighted mean of the group means is the overall mean.
C9_Reconciliation ==
    Loaded =>
        \A g \in GroupedBy :
            /\ SumSeq([k \in 1..Len(g.result) |-> LineCount(g.result[k])])
                  = Len(filtered_df.rows)
            /\ SumSeq([k \in 1..Len(g.result) |-> LineSum(g.result[k])])
                  = SumSeq(Column(filtered_df, "Total_Score"))

\* The sum of a list of fractions, as a fraction.
RECURSIVE FractionSum(_)
FractionSum(fs) ==
    IF fs = <<>> THEN [num |-> 0, den |-> 1]
    ELSE LET rest == FractionSum(Tail(fs))
         IN [num |-> Head(fs).num * rest.den + rest.num * Head(fs).den,
             den |-> Head(fs).den * rest.den]

\* The cells of one row of a table, in the order of its columns.
TableRow(table, r) == [c \in 1..Len(table.columns) |-> table.cell[r][table.columns[c]]]

\* C10: every row of the normalized department by grade table sums to exactly
\* 100, unless no row of the filtered frame is behind it, and then each of its
\* cells is 0.
C10_RowsSumTo100 ==
    Loaded =>
        \A r \in Range(dept_grade.index) :
            LET cells == TableRow(dept_grade, r)
                total == FractionSum(cells)
            IN IF RowsOf(filtered_df, "Department", r) = <<>>
               THEN \A c \in 1..Len(cells) : cells[c].num = 0
               ELSE total.num = 100 * total.den

\* C10 witness: a table with a department whose rows are split over two
\* grades, so that its row holds percentages other than 0 and 100.
C10_Witness ==
    /\ Loaded
    /\ Len(dept_grade.columns) = 2
    /\ \E r \in Range(dept_grade.index) : \E c \in Range(dept_grade.columns) :
          /\ dept_grade.cell[r][c].num > 0
          /\ dept_grade.cell[r][c].num < 100 * dept_grade.cell[r][c].den

\* The place of a label in a declared order.
Position(order, label) == CHOOSE i \in 1..Len(order) : order[i] = label

\* The grades that occur in the filtered frame, in the order A, B, C, D, F.
ObservedGrades ==
    SelectSeq(correct_order, LAMBDA g : g \in Unique(filtered_df, "Grade"))

\* C11: the columns of the department by grade table and of the gender by
\* grade table are the grades that occur in the filtered frame in the order
\* A, B, C, D, F, also when only some of the grades occur.
C11_ColumnsInGradeOrder ==
    Loaded =>
        /\ dept_grade.columns = ObservedGrades
        /\ gender_grade.columns = ObservedGrades

\* C11 witness: some but not all grades occur, the rows of the filtered frame
\* do not come in the order of the grades, and the tables have been made.
C11_Witness ==
    /\ Loaded
    /\ Len(dept_grade.columns) >= 2
    /\ Len(gender_grade.columns) < Len(correct_order)
    /\ \E i, j \in 1..Len(filtered_df.rows) :
          /\ i < j
          /\ Position(correct_order, filtered_df.rows[i].Grade)
                > Position(correct_order, filtered_df.rows[j].Grade)

\* The grouped results that the script sorts, each with its declared order.
OrderedResults ==
    { [result |-> study_perf, order |-> category_order],
      [result |-> sleep_perf, order |-> sleep_order],
      [result |-> grade_performance, order |-> correct_order],
      [result |-> income_perf, order |-> income_order] }

\* C12: the lines of every grouped result come in the declared order of the
\* labels of its group-by column (bin labels as declared, grades A to F, income
\* Low, Medium, High): each key is a declared label and a line's key stands
\* before the key of every later line in that order.
C12_GroupsInDeclaredOrder ==
    Loaded =>
        \A g \in OrderedResults :
            /\ \A k \in 1..Len(g.result) : g.result[k].key \in Range(g.order)
            /\ \A k, l \in 1..Len(g.result) :
                  k < l => Position(g.order, g.result[k].key)
                             < Position(g.order, g.result[l].key)

\* C12 witness: income_perf holds Low before High, which sorted as text come
\* the other way round, and study_perf holds '5-10' before '10-15'.
C12_Witness ==
    /\ Loaded
    /\ Len(income_perf) >= 2
    /\ income_perf[1].key = "Low"
    /\ income_perf[Len(income_perf)].key = "High"
    /\ \E k, l \in 1..Len(study_perf) :
          /\ k < l
          /\ study_perf[k].key = "5-10"
          /\ study_perf[l].key = "10-15"

\* On the diagonal cov, varx and vary are one number, and the entry
\* cov / sqrt(varx * vary) is 1.0 when that number is not 0.
IsOne(e) == ~e.nan /\ e.cov > 0 /\ e.cov = e.varx /\ e.cov = e.vary

\* Two entries that are the same coefficient: both NaN, or the same cov over
\* the same two variances.
SameCoefficient(p, q) ==
    /\ p.nan = q.nan
    /\ ~p.nan => p.cov = q.cov /\ {p.varx, p.vary} = {q.varx, q.vary}

\* C13 (as claimed): for every filtered frame, also one with a column of equal
\* values or with no rows, every diagonal entry of the correlation matrix is
\* exactly 1.0 and the matrix is symmetric.
C13_DiagonalOneSymmetric ==
    Loaded =>
        \A a \in Range(score_columns) :
            /\ IsOne(correlation_matrix[a][a])
            /\ \A b \in Range(score_columns) :
                  SameCoefficient(correlation_matrix[a][b], correlation_matrix[b][a])

\* A column whose values over the frame's rows are all equal (or that has no
\* value at all).
ZeroVariance(frame, col) == Cardinality(Unique(frame, col)) <= 1

\* C14 (as claimed): an entry off the diagonal for a pair with a zero-variance
\* column is an explicit report and never NaN, and an entry for a pair without
\* such a column is a coefficient.
C14_ZeroVarianceReported ==
    Loaded =>
        \A a, b \in Range(score_columns) :
            a # b =>
                /\ (ZeroVariance(filtered_df, a) \/ ZeroVariance(filtered_df, b))
                      => ~correlation_matrix[a][b].nan
                /\ (~ZeroVariance(filtered_df, a) /\ ~ZeroVariance(filtered_df, b))
                      => ~correlation_matrix[a][b].nan

\* The number of rows of the filtered frame and the Total_Score of its row i.
Rows == Len(filtered_df.rows)
Score(i) == filtered_df.rows[i].Total_Score

\* C15: the top cohort holds n rows of the filtered frame (all rows when there
\* are fewer than n), and each of its rows has a larger Total_Score than every
\* row left out, or the same Total_Score and an earlier place in the frame; the
\* bottom cohort likewise with a smaller Total_Score. This fixes the selected
\* rows, so equal inputs select equal rows.
C15_CohortSelectsByRank ==
    Loaded =>
        LET size == IF widgets.n_students < Rows THEN widgets.n_students ELSE Rows
        IN /\ top_students \subseteq 1..Rows
           /\ Cardinality(top_students) = size
           /\ \A i \in top_students : \A j \in (1..Rows) \ top_students :
                 Score(i) > Score(j) \/ (Score(i) = Score(j) /\ i < j)
           /\ bottom_students \subseteq 1..Rows
           /\ Cardinality(bottom_students) = size
           /\ \A i \in bottom_students : \A j \in (1..Rows) \ bottom_students :
                 Score(i) < Score(j) \/ (Score(i) = Score(j) /\ i < j)

\* C15 witness: the frame has more rows than the cohort, and a row inside the
\* top cohort has the same Total_Score as a row left out of it.
C15_Witness ==
    /\ Loaded
    /\ widgets.n_students < Rows
    /\ \E i \in top_students : \E j \in (1..Rows) \ top_students :
          Score(i) = Score(j)

\* C16: when n is more than the filtered frame has rows, the top cohort and
\* the bottom cohort are each all rows of the filtered frame.
C16_WholeFrameWhenShort ==
    (Loaded /\ widgets.n_students > Rows) =>
        /\ top_students = 1..Rows
        /\ bottom_students = 1..Rows

\* C16 witness: a filtered frame of at least two rows, fewer than n, whose
\* cohorts have been taken.
C16_Witness ==
    /\ Loaded
    /\ Rows >= 2
    /\ widgets.n_students > Rows
    /\ Cardinality(top_students) = Rows
    /\ Cardinality(bottom_students) = Rows

\* The Total_Score values of the filtered frame are pairwise distinct.
DistinctScores == \A i, j \in 1..Rows : i # j => Score(i) # Score(j)

\* C17: when the Total_Score values are pairwise distinct and the filtered
\* frame has at least 2n rows, no row is in both the top and the bottom cohort.
C17_CohortsDisjoint ==
    (Loaded /\ DistinctScores /\ 2 * widgets.n_students <= Rows) =>
        top_students \cap bottom_students = {}

\* C17 witness: distinct values, at least 2n rows, and two cohorts of n rows.
C17_Witness ==
    /\ Loaded
    /\ DistinctScores
    /\ 2 * widgets.n_students <= Rows
    /\ Cardinality(top_students) = widgets.n_students
    /\ Cardinality(bottom_students) = widgets.n_students

\* The sum of col over the rows of the filtered frame at the positions in S.
RECURSIVE SumOver(_, _)
SumOver(S, col) ==
    IF S = {} THEN 0
    ELSE LET i == CHOOSE i \in S : TRUE
         IN filtered_df.rows[i][col] + SumOver(S \ {i}, col)

\* stats holds, for every metric, the mean over exactly the rows at S.
MeansOver(stats, S) ==
    \A c \in Range(StatColumns) :
        IF S = {} THEN stats[c].nan
        ELSE /\ ~stats[c].nan
             /\ stats[c].num * Cardinality(S) = SumOver(S, c) * stats[c].den

\* grades holds, for every grade that occurs at S and for no other, its share
\* of the rows at S in percent (as a number of hundredths of S's size), and
\* the shares add up to 100.
SharesOver(grades, S) ==
    /\ DOMAIN grades = {filtered_df.rows[i].Grade : i \in S}
    /\ \A g \in DOMAIN grades :
          grades[g].num * Cardinality(S)
             = 100 * Cardinality({i \in S : filtered_df.rows[i].Grade = g}) * grades[g].den
    /\ S # {} =>
          LET labels == SelectSeq(correct_order, LAMBDA g : g \in DOMAIN grades)
          IN /\ \A g \in DOMAIN grades : grades[g].den = Cardinality(S)
             /\ SumSeq([k \in 1..Len(labels) |-> grades[labels[k]].num])
                   = 100 * Cardinality(S)

\* C18: each mean of top_stats and bottom_stats is the mean over exactly the
\* rows selected for the cohort, and top_grades and bottom_grades hold the
\* shares of the grades among exactly those rows, adding up to 100.
C18_StatsOverCohort ==
    Loaded =>
        /\ MeansOver(top_stats, top_students)
        /\ SharesOver(top_grades, top_students)
        /\ MeansOver(bottom_stats, bottom_students)
        /\ SharesOver(bottom_grades, bottom_students)

\* C18 witness: a top cohort smaller than the filtered frame whose mean study
\* hours differ from the mean over the whole frame, with two grades or more.
C18_Witness ==
    /\ Loaded
    /\ top_students # {}
    /\ Cardinality(top_students) < Rows
    /\ top_stats["Study_Hours_per_Week"].num * Rows
          # SumOver(1..Rows, "Study_Hours_per_Week") * top_stats["Study_Hours_per_Week"].den
    /\ Cardinality(DOMAIN top_grades) >= 2

\* The column behind a key of top_metrics.
MetricColumn(key) == StatColumns[Position(MetricKeys, key)]

\* C19 (as claimed): for every metric the difference view holds the signed
\* value top mean minus bottom mean, and a difference is made only when the two
\* results have the same metrics.
C19_SignedDifference ==
    Loaded =>
        /\ DOMAIN top_metrics # DOMAIN bottom_metrics => diff_metrics = <<>>
        /\ \A k \in DOMAIN diff_metrics :
              LET t == top_stats[MetricColumn(k)]
                  b == bottom_stats[MetricColumn(k)]
                  u == UnitsOf(MetricColumn(k))
              IN (~t.nan /\ ~b.nan) =>
                    /\ ~diff_metrics[k].nan
                    /\ diff_metrics[k].hundredths * u * t.den * b.den
                          = 100 * (t.num * b.den - b.num * t.den)

\* The rows of the CSV file that satisfy the current filters, in file order.
Survivors == SelectSeq(csv, LAMBDA r : Satisfies(r, widgets))

\* C20 (as claimed): the export has the columns of the input file and holds
\* exactly the rows of the file that survived the filters, in their order, each
\* cell as it was in the file.
C20_ExportRoundTrips ==
    Loaded =>
        /\ csv_export.header = CsvColumns
        /\ Len(csv_export.records) = Len(Survivors)
        /\ \A i \in 1..Len(csv_export.records) : \A c \in Range(CsvColumns) :
              csv_export.records[i][Position(csv_export.header, c)] = Survivors[i][c]

\* C21 (as claimed): a source that cannot be loaded (the file is not found, a
\* column the script needs is absent) is detected during load and shown as an
\* error, and after it nothing else of the run is executed: every exception a
\* run ends with was raised by the load and shown by its except clause, and a
\* run that ended with one has bound no filtered frame.
C21_LoadFailureFatal ==
    error # NoError =>
        /\ error.at = "load"
        /\ error.shown = "st.error"
        /\ run = "stopped"
        /\ filtered_df = NoFrame

\* The source has every column the script reads.
RequiredPresent == found /\ Range(CsvColumns) \subseteq Range(header)

\* The frame has no parent education column, or NaN in it in every row.
ParentColumnEmpty(frame) ==
    \/ OptionalColumn \notin Range(frame.columns)
    \/ \A i \in 1..Len(frame.rows) : frame.rows[i][OptionalColumn] = NaN

\* The frame without the parent education column.
Stripped(frame) ==
    [columns |-> Without(frame.columns, OptionalColumn),
     rows |-> [i \in 1..Len(frame.rows) |->
                 [k \in DOMAIN frame.rows[i] \ {OptionalColumn} |-> frame.rows[i][k]]],
     id |-> frame.id]

\* C22: when the source has every required column, the run loads and ends
\* without an error whether or not it has Parent_Education_Level; and when the
\* column is absent, or NaN in every filtered row, the parent education column
\* of tab 4 shows "Parent Education Level data is not available." and no chart,
\* while the other results are what they are on the same rows without the
\* column.
C22_OptionalColumnDegrades ==
    (run # "init" /\ RequiredPresent) =>
        /\ run = "loaded"
        /\ error = NoError
        /\ ParentColumnEmpty(filtered_df) =>
              /\ parent_edu = [shown |-> "Parent Education Level data is not available.",
                               perf |-> <<>>, grade |-> NoTable]
              /\ avg_total = Mean(Column(Stripped(filtered_df), "Total_Score"))
              /\ passing_rate = PassingRate(Stripped(filtered_df))
              /\ dept_grade = ReorderColumns(Crosstab(Stripped(filtered_df), "Department",
                                                      "Grade"), correct_order)
              /\ grade_performance =
                     SortByCategory(GroupByMean(Stripped(filtered_df), "Grade",
                                                "Total_Score"), correct_order)
              /\ correlation_matrix = Corr(Stripped(filtered_df), score_columns)
              /\ top_students = NLargest(Stripped(filtered_df), widgets.n_students,
                                         "Total_Score")
              /\ Len(csv_export.records) = Len(filtered_df.rows)

\* The source has the column, a row of the loaded frame has a level in it, and
\* the filters leave rows that all have NaN in it.
C22_Witness ==
    /\ Loaded
    /\ OptionalColumn \in Range(df.columns)
    /\ ~ParentColumnEmpty(df)
    /\ filtered_df.rows # <<>>
    /\ ParentColumnEmpty(filtered_df)
    /\ parent_edu.shown = "Parent Education Level data is not available."

\* C23: load_data's body reads the source at most once in the life of the
\* process; once a dataset is cached the entry is never dropped or replaced,
\* and every later run of the script gets the cached dataset, even when the
\* file has changed since.
C23_LoadMemoized ==
    [][/\ parsed' <= 1
       /\ cache # NoFrame => cache' = cache
       /\ (cache # NoFrame /\ runs' # runs) => df' = cache]_vars

\* A run after the file was replaced: df is the first dataset, not the file's.
C23_Witness ==
    /\ Loaded
    /\ runs >= 2
    /\ parsed = 1
    /\ df = cache
    /\ df # load_data(header, csv, LoadedId)

\* C24 (as claimed): a query's result depends only on the dataset and the
\* query's parameters, not on the queries that ran before it: at the end of a
\* run of simple_dashboard.py the filtered frame, which the raw-data table
\* shows, is what the filters return for the loaded frame and the selections.
C24_QueriesIndependent ==
    simple_pc = "done" =>
        simple_filtered_df = SimpleApplyFilters(simple_df, simple_widgets)

\* C25: the config file changes only in update_config's step, which is taken
\* with the wheel path build_package returned; and whenever the script has
\* exited early, the file is as it was when the run started.
C25_ConfigWrittenAfterBuild ==
    [][/\ config_file' # config_file =>
              /\ setup_pc = "update_config"
              /\ wheel_path # NoWheel
              /\ wheel_path' = wheel_path
       /\ setup_pc' = "exited" => config_file' = config_before']_vars

\* A run that read an existing config file and exited in build_package.
C25_Witness ==
    /\ setup_pc = "exited"
    /\ config_file.valid
    /\ config = config_file.doc
    /\ config.type = "obj"
    /\ wheel_path = NoWheel
    /\ config_file = config_before

\* The keys of a dict.
Keys(d) == {d.items[i].key : i \in 1..Len(d.items)}

\* The servers of a config, none when it has no mcpServers.
Servers(doc) == IF Has(doc, "mcpServers") THEN Get(doc, "mcpServers") ELSE Obj(<<>>)

\* C26: when update_config writes the file, the document written has the keys
\* of the config read plus 'mcpServers', every other key with the value read;
\* its servers are the servers read plus 'mcp-server-ds', every other server
\* with the entry read, and 'mcp-server-ds' with {command: 'uvx', args:
\* ['--from', wheel_path, 'mcp-server-ds']}; and when the file already is the
\* script's output for this wheel path, the write leaves it as it is.
C26_OnlyServerEntryChanges ==
    [][(setup_pc = "update_config" /\ setup_pc' = "restart_claude") =>
          LET written == config_file'.doc
          IN /\ config_file'.valid
             /\ Keys(written) = Keys(config) \cup {"mcpServers"}
             /\ \A k \in Keys(config) \ {"mcpServers"} : Get(written, k) = Get(config, k)
             /\ Keys(Servers(written)) = Keys(Servers(config)) \cup {ServerName}
             /\ \A n \in Keys(Servers(config)) \ {ServerName} :
                   Get(Servers(written), n) = Get(Servers(config), n)
             /\ Get(Servers(written), ServerName) =
                    Obj(<<Member("command", Str("uvx")),
                          Member("args", Arr("--from", wheel_path, "mcp-server-ds"))>>)
             /\ (/\ config_file.valid
                 /\ config_file.indent = 2
                 /\ Has(config, "mcpServers")
                 /\ Has(Servers(config), ServerName)
                 /\ Get(Servers(config), ServerName) = Get(Servers(written), ServerName))
                => config_file' = config_file]_vars

\* update_config has replaced an older entry of the server in a file that has
\* another key and another server.
C26_Witness ==
    /\ setup_pc = "restart_claude"
    /\ config_before.valid
    /\ config_file # config_before
    /\ Has(config_file.doc, "theme")
    /\ Has(Servers(config_file.doc), "other")
    /\ Has(Servers(config_before.doc), ServerName)
    /\ Get(Servers(config_before.doc), ServerName) = OldEntry
    /\ Has(Servers(config_file.doc), ServerName)
    /\ Get(Servers(config_file.doc), ServerName) = ServerEntry(wheel_path)

\* 100 for a row whose grade is not 'F', 0 for a row whose grade is 'F'.
NotF(frame) ==
    [i \in 1..Len(frame.rows) |-> IF frame.rows[i].Grade # "F" THEN Percent ELSE 0]

\* C27: in the loaded frame a row's Pass_Status is 'Failed' when its Grade is
\* 'F' and 'Passed' when it is anything else; the passing rate of the filtered
\* frame is 100 times the fraction of its rows whose Grade is not 'F' (NaN for
\* no rows), and the metric shows the tenth nearest to it.
C27_PassingRate ==
    Loaded =>
        /\ \A i \in 1..Len(df.rows) :
              df.rows[i].Pass_Status =
                  IF df.rows[i].Grade = "F" THEN "Failed" ELSE "Passed"
        /\ passing_rate = Mean(NotF(filtered_df))
        /\ passing_text.nan = passing_rate.nan
        /\ passing_text.suffix = "%"
        /\ ~passing_rate.nan =>
              /\ 2 * passing_text.tenths * passing_rate.den
                     >= 2 * 10 * passing_rate.num - passing_rate.den
              /\ 2 * passing_text.tenths * passing_rate.den
                     <= 2 * 10 * passing_rate.num + passing_rate.den

\* A filtered frame with failed and passed rows, one of them with grade 'D'.
C27_Witness ==
    /\ Loaded
    /\ \E i \in 1..Len(filtered_df.rows) : filtered_df.rows[i].Grade = "F"
    /\ \E i \in 1..Len(filtered_df.rows) : filtered_df.rows[i].Grade = "D"
    /\ passing_rate.num = 4 * Percent
    /\ passing_rate.den = 5
    /\ passing_text.tenths = 800

====
